---- MODULE Spec2Model ----
(***************************************************************************)
(* A model of create_project.py, the interactive project scaffolder.       *)
(*                                                                         *)
(* One run of main() is a state machine: every phase of main() is an       *)
(* action, user answers and the outcomes of external commands are drawn    *)
(* with \E at the point where the code reads them.  The file system below  *)
(* the project root is a set of directories and a set of files, both sets  *)
(* of paths relative to the project root (a path is a tuple of names, <<>>  *)
(* is the project root itself).                                            *)
(***************************************************************************)
EXTENDS Integers, Sequences, FiniteSets, TLC

VARIABLES
    pc,                  \* position of main()
    halt,                \* why the run stopped early ("none" while running)
    cfgFile,             \* ~/.dev_scripter/config.ini on disk
    cfgWrites,           \* number of times this run wrote the config file
    config,              \* the ConfigParser object held by main()
    settings,            \* the settings record of get_project_settings
    dirs,                \* directories that exist at or below the project root
    files,               \* files that exist below the project root
    events,              \* every mkdir, file write and external command, in order
    phases,              \* the phases main() has entered, in order
    SUMMARY_LOG,         \* module global SUMMARY_LOG
    NEXT_STEPS,          \* module global NEXT_STEPS
    language_components, \* main()'s list of {'name', 'lang'}
    build_sh,            \* body of build.sh: the component blocks after "set -e"
    build_system,        \* all_servers['build-system'] as configure_ai_tools left it
    mcp_prompted,        \* the "Select MCP servers to enable" prompt was shown
    enabled_servers,     \* the answer to that prompt
    gemini_config,       \* mcpServers written to .gemini/settings.json
    cursor_config,       \* mcpServers written to .cursor/mcp.json
    claude_config,       \* mcpServers written to .claude/settings.json
    gitignore,           \* lines of the body written to .gitignore
    vscode_extensions,   \* "recommendations" of .vscode/extensions.json
    doc_summary,         \* "## Project Summary" lines of GETTING_STARTED.md
    doc_steps            \* "## Next Steps" lines of GETTING_STARTED.md

vars == <<pc, halt, cfgFile, cfgWrites, config, settings, dirs, files, events,
          phases, SUMMARY_LOG, NEXT_STEPS, language_components, build_sh,
          build_system, mcp_prompted, enabled_servers, gemini_config,
          cursor_config, claude_config, gitignore, vscode_extensions,
          doc_summary, doc_steps>>

-----------------------------------------------------------------------------
(* Bounds and input sets                                                   *)

\* Longest language list the multi-choice prompt returns in the model.
MaxLangs == 2

\* get_project_settings: all_langs
all_langs == <<"Python", "C++", "Rust", "Dart/Flutter">>

Langs == {all_langs[i] : i \in 1..Len(all_langs)}

\* The project name typed at the first prompt (its default).
ProjectName == "my-new-project"

\* Python's None
None == "None"

\* A subdirectory name the user may type instead of the default.
CustomNames == {"app"}

\* str.lower() on the language names
Lower(lang) ==
    CASE lang = "Python" -> "python"
      [] lang = "C++" -> "c++"
      [] lang = "Rust" -> "rust"
      [] lang = "Dart/Flutter" -> "dart/flutter"

\* Path(project_name) / component_name: "dart/flutter" has two parts
NamePath(name) ==
    IF name = "dart/flutter" THEN <<"dart", "flutter">> ELSE <<name>>

\* Path.name: the last part
PathName(path) == IF path = <<>> THEN ProjectName ELSE path[Len(path)]

\* Path.parent (of the project root: the current directory, which exists)
PathParent(path) == SubSeq(path, 1, Len(path) - 1)

-----------------------------------------------------------------------------
(* The persisted configuration                                             *)

\* get_or_create_config: the API_KEYS section written on first run
DefaultApiKeys ==
    [k \in {"gemini", "anthropic", "notion", "github_personal_access_token"} |->
        CASE k = "gemini" -> "YOUR_GEMINI_API_KEY_HERE"
          [] k = "anthropic" -> "YOUR_ANTHROPIC_API_KEY_HERE"
          [] k = "notion" -> "YOUR_NOTION_API_KEY_HERE"
          [] k = "github_personal_access_token" -> "YOUR_GITHUB_PAT_HERE"]

\* The user replaced every placeholder by a key.
RealApiKeys ==
    [k \in {"gemini", "anthropic", "notion", "github_personal_access_token"} |->
        CASE k = "gemini" -> "AIza-gemini"
          [] k = "anthropic" -> "sk-ant-anthropic"
          [] k = "notion" -> "secret-notion"
          [] k = "github_personal_access_token" -> "ghp-github"]

\* The user filled in one key, blanked one and deleted the other two.
PartialApiKeys ==
    [k \in {"anthropic", "notion"} |->
        CASE k = "anthropic" -> "sk-ant-anthropic"
          [] k = "notion" -> ""]

\* The answers to the prompt for a missing github_username
UserNames == {"", "octocat"}

\* 'YOUR_' in value
ContainsYOUR(value) ==
    value \in {"YOUR_GEMINI_API_KEY_HERE", "YOUR_ANTHROPIC_API_KEY_HERE",
               "YOUR_NOTION_API_KEY_HERE", "YOUR_GITHUB_PAT_HERE",
               "YOUR_GITHUB_PERSONAL_ACCESS_TOKEN_HERE"}

\* dict.get(key): None when the key is missing
Get(table, key) == IF key \in DOMAIN table THEN table[key] ELSE None

\* Python truthiness of a string or None
Truthy(value) == value # None /\ value # ""

NoConfigFile == [exists |-> FALSE, github_username |-> "", API_KEYS |-> <<>>]

NoConfig == [github_username |-> "", API_KEYS |-> <<>>]

-----------------------------------------------------------------------------
(* File system and process gateway                                         *)

\* The part of the program state that the helpers below change.
\* raised: an exception nothing catches is propagating; every later step of the
\* same call chain is skipped.
World == [dirs |-> dirs, files |-> files, events |-> events, log |-> SUMMARY_LOG,
          raised |-> FALSE]

\* Path.exists()
Exists(w, path) == path \in w.dirs \/ path \in w.files

\* Path.mkdir() succeeds: the path is free and its parent is a directory
\* (the parent of the project root is the current directory).
CanMkdir(w, path) ==
    /\ ~Exists(w, path)
    /\ (path = <<>> \/ PathParent(path) \in w.dirs)

\* Path.mkdir(): FileExistsError or FileNotFoundError when it cannot
Mkdir(w, path) ==
    IF w.raised THEN w
    ELSE IF CanMkdir(w, path)
         THEN [w EXCEPT !.dirs = @ \cup {path},
                        !.events = Append(@, <<"mkdir", path>>)]
         ELSE [w EXCEPT !.raised = TRUE]

\* Path.mkdir(exist_ok=True)
MkdirExistOk(w, path) == IF path \in w.dirs THEN w ELSE Mkdir(w, path)

\* subprocess.run called directly raised FileNotFoundError
Raise(w) == [w EXCEPT !.raised = TRUE]

\* write_file: path.parent.mkdir(parents=True, exist_ok=True), then write_text
write_file(w, path) ==
    IF w.raised THEN w ELSE
    [w EXCEPT !.dirs = @ \cup {SubSeq(path, 1, k) : k \in 0..(Len(path) - 1)},
              !.files = @ \cup {path},
              !.events = Append(@, <<"write", path>>)]

\* An external command was started (or its start was attempted).
Cmd(w, command) ==
    IF w.raised THEN w ELSE [w EXCEPT !.events = Append(@, <<"cmd", command>>)]

\* SUMMARY_LOG.append
Log(w, entry) == IF w.raised THEN w ELSE [w EXCEPT !.log = Append(@, entry)]

\* What subprocess.run meets: the binary runs and exits 0, is not on the PATH,
\* or exits non-zero.  A working directory that does not exist raises
\* FileNotFoundError, as a missing binary does.
Outcomes(w, cwd) == IF cwd \in w.dirs THEN {"ok", "missing", "failed"} ELSE {"missing"}

\* run_command: the result on success, None after printing a diagnostic
run_command(outcome) == IF outcome = "ok" THEN "result" ELSE None

\* subprocess.run without check=True, called directly: the exit status, or
\* "raise" for the FileNotFoundError nothing catches
subprocess_run(outcome) ==
    CASE outcome = "ok" -> "0"
      [] outcome = "failed" -> "1"
      [] outcome = "missing" -> "raise"

\* Outcomes of a command run in the current directory
OutcomesHere == {"ok", "missing", "failed"}

-----------------------------------------------------------------------------
(* Prompt answers                                                          *)

\* select_many: the lists of at most n options the user can type
\* (the same index may be typed twice)
select_many(options, n) ==
    UNION {[1..k -> {options[i] : i \in 1..Len(options)}] : k \in 0..n}

\* The four tools offered by "Configure for which AI tools?"
AiTools == {"Gemini", "Cursor", "Claude", "GitHub Copilot"}

EmptySettings ==
    [project_name |-> ProjectName, languages |-> <<>>, use_docker |-> FALSE,
     use_ci |-> FALSE, use_github |-> FALSE, ai_tools |-> {}]

-----------------------------------------------------------------------------
(* Initial states                                                          *)

\* A directory that already carries the project's name, with a file in it.
ExistingDirs == {<<>>}
ExistingFiles == {<<"README.md">>}

\* The state when main() is entered, the config file being one of ConfigFiles
InitWith(ConfigFiles) ==
    /\ pc = "start"
    /\ halt = "none"
    /\ cfgFile \in {NoConfigFile} \cup ConfigFiles
    /\ cfgWrites = 0
    /\ config = NoConfig
    /\ settings = EmptySettings
    /\ \/ dirs = {} /\ files = {}
       \/ dirs = ExistingDirs /\ files = ExistingFiles
    /\ events = <<>>
    /\ phases = <<>>
    /\ SUMMARY_LOG = <<>>
    /\ NEXT_STEPS = <<>>
    /\ language_components = <<>>
    /\ build_sh = <<>>
    /\ build_system = [command |-> "", args |-> <<>>]
    /\ mcp_prompted = FALSE
    /\ enabled_servers = <<>>
    /\ gemini_config = <<>>
    /\ cursor_config = <<>>
    /\ claude_config = <<>>
    /\ gitignore = <<>>
    /\ vscode_extensions = <<>>
    /\ doc_summary = <<>>
    /\ doc_steps = <<>>

-----------------------------------------------------------------------------
(* main(), phase by phase                                                  *)

\* get_or_create_config without the test of line 137: the file is written
\* with the placeholders whether it is there or not
get_or_create_configMutant ==
    /\ pc = "start"
    /\ phases' = Append(phases, "configure")
    /\ cfgFile' = [exists |-> TRUE, github_username |-> "",
                   API_KEYS |-> DefaultApiKeys]
    /\ cfgWrites' = cfgWrites + 1
    /\ pc' = "exited"
    /\ halt' = "first_run"
    /\ UNCHANGED <<config, settings, dirs, files, events, SUMMARY_LOG, NEXT_STEPS,
                   language_components, build_sh, build_system, mcp_prompted,
                   enabled_servers, gemini_config, cursor_config, claude_config,
                   doc_summary, doc_steps, gitignore, vscode_extensions>>

\* get_or_create_config
get_or_create_config ==
    /\ pc = "start"
    /\ phases' = Append(phases, "configure")
    /\ IF ~cfgFile.exists
       THEN \* first run: write the placeholders and sys.exit(0)
            /\ cfgFile' = [exists |-> TRUE, github_username |-> "",
                           API_KEYS |-> DefaultApiKeys]
            /\ cfgWrites' = cfgWrites + 1
            /\ pc' = "exited"
            /\ halt' = "first_run"
            /\ UNCHANGED config
       ELSE LET read == [github_username |-> cfgFile.github_username,
                         API_KEYS |-> cfgFile.API_KEYS]
            IN  IF ~Truthy(read.github_username)
                THEN \E gh_user \in UserNames :
                        IF Truthy(gh_user)
                        THEN /\ config' = [read EXCEPT !.github_username = gh_user]
                             /\ cfgFile' = [cfgFile EXCEPT !.github_username = gh_user]
                             /\ cfgWrites' = cfgWrites + 1
                             /\ pc' = "settings"
                             /\ UNCHANGED halt
                        ELSE /\ config' = read
                             /\ pc' = "settings"
                             /\ UNCHANGED <<cfgFile, cfgWrites, halt>>
                ELSE /\ config' = read
                     /\ pc' = "settings"
                     /\ UNCHANGED <<cfgFile, cfgWrites, halt>>
    /\ UNCHANGED <<settings, dirs, files, events, SUMMARY_LOG, NEXT_STEPS,
                   language_components, build_sh, build_system, mcp_prompted,
                   enabled_servers, gemini_config, cursor_config, claude_config,
                   doc_summary, doc_steps,
                   gitignore, vscode_extensions>>

\* get_project_settings, the answers to its prompts being drawn from the
\* given sets
get_project_settings(LanguageLists, Answers) ==
    /\ pc = "settings"
    /\ \E project_type \in {"Single-Language", "Multi-Language"} :
       \E languages \in (IF project_type = "Single-Language"
                         THEN {<<all_langs[i]>> : i \in 1..Len(all_langs)}
                         ELSE LanguageLists) :
          IF languages = <<>>
          THEN \* "No languages selected. Aborting." and sys.exit(0)
               /\ pc' = "exited"
               /\ halt' = "no_languages"
               /\ UNCHANGED settings
          ELSE \E answers \in Answers :
                  /\ settings' = [project_name |-> ProjectName,
                                  languages |-> languages,
                                  use_docker |-> answers.use_docker,
                                  use_ci |-> answers.use_ci,
                                  use_github |-> answers.use_github,
                                  ai_tools |-> answers.ai_tools]
                  /\ pc' = "create"
                  /\ UNCHANGED halt
    /\ UNCHANGED <<cfgFile, cfgWrites, config, dirs, files, events, phases,
                   SUMMARY_LOG, NEXT_STEPS, language_components, build_sh,
                   build_system, mcp_prompted, enabled_servers, gemini_config,
                   cursor_config, claude_config, doc_summary, doc_steps,
                   gitignore, vscode_extensions>>

\* len(settings['languages']) > 1
is_multilang == Len(settings.languages) > 1

\* main, line 416: project_path.exists()
TargetExistsMutant(w) == <<>> \in w.files

TargetExists(w) == Exists(w, <<>>)

\* get_gitignore_content: common.  A text whose every line ends in a newline
\* is the sequence of its lines.
GitignoreCommon ==
    <<"# General", ".DS_Store", "*.swp", "*.swo", ".env", ".idea/", "build/",
      "dist/", "", "# Scripter Config", "/.dev_scripter/">>

\* get_gitignore_content: lang_specific_map
lang_specific_map ==
    [lang \in Langs |->
        CASE lang = "Python" -> <<"# Python", "__pycache__/", "*.pyc", "*.pyo",
                                  "venv/", ".pytest_cache/">>
          [] lang = "C++" -> <<"# C++", "*.o", "*.out", "*.exe", "*.dll", "*.so",
                               "*.a", "CMakeLists.txt.user", "**/CMakeCache.txt",
                               "**/CMakeFiles/">>
          [] lang = "Rust" -> <<"# Rust", "# Ignore all target directories",
                                "**/target/">>
          [] lang = "Dart/Flutter" -> <<"# Flutter", ".dart_tool/", ".packages">>]

\* "\n".join(texts): each text ends in a newline, so the separator leaves an
\* empty line between two texts
RECURSIVE JoinNewline(_)
JoinNewline(texts) ==
    IF texts = <<>> THEN <<>>
    ELSE IF Len(texts) = 1 THEN Head(texts)
    ELSE Head(texts) \o <<"">> \o JoinNewline(Tail(texts))

\* str.strip() on a text of lines: the empty lines at both ends go (so does
\* the last newline, which write_file puts back)
RECURSIVE StripLines(_)
StripLines(lines) ==
    IF lines = <<>> THEN <<>>
    ELSE IF Head(lines) = "" THEN StripLines(Tail(lines))
    ELSE IF lines[Len(lines)] = "" THEN StripLines(SubSeq(lines, 1, Len(lines) - 1))
    ELSE lines

\* The language part taken from the first language only
get_gitignore_contentMutant(languages) ==
    LET lang_specific_content ==
            IF languages = <<>> THEN <<>>
            ELSE LET text == Get(lang_specific_map, Head(languages))
                 IN  IF text = None THEN <<>> ELSE text
    IN  StripLines(GitignoreCommon \o <<"">> \o lang_specific_content)

\* get_gitignore_content
get_gitignore_content(languages) ==
    LET lang_specific_content ==
            JoinNewline([i \in 1..Len(languages) |->
                            LET text == Get(lang_specific_map, languages[i])
                            IN  IF text = None THEN <<>> ELSE text])
    IN  StripLines(GitignoreCommon \o <<"">> \o lang_specific_content)

\* main, lines 413-427: the existence check, the project directory, git init
\* and .gitignore
create_project ==
    /\ pc = "create"
    /\ IF TargetExists(World)
       THEN \* "[ERROR] Directory ... already exists. Aborting." and return
            /\ pc' = "aborted"
            /\ halt' = "target_exists"
            /\ UNCHANGED <<dirs, files, events, phases, SUMMARY_LOG, gitignore>>
       ELSE \E git \in Outcomes(Mkdir(World, <<>>), <<>>) :
            LET w1 == Mkdir(World, <<>>)
                w2 == Log(w1, <<"Project", ProjectName, "">>)
                w3 == Log(w2, <<"Project Type",
                                IF is_multilang THEN "Multi-Language"
                                ELSE "Single-Language", "">>)
                w4 == Cmd(w3, <<"git", "init">>)
                w5 == write_file(w4, <<".gitignore">>)
            IN  /\ run_command(git) \in {"result", None}
                /\ dirs' = w5.dirs
                /\ files' = w5.files
                /\ events' = w5.events
                /\ SUMMARY_LOG' = w5.log
                /\ gitignore' = IF w5.raised THEN gitignore
                                ELSE StripLines(get_gitignore_content(settings.languages))
                /\ phases' = Append(phases, "scaffold")
                /\ IF w5.raised
                   THEN pc' = "crashed" /\ halt' = "uncaught_oserror"
                   ELSE pc' = "scaffold" /\ UNCHANGED halt
    /\ UNCHANGED <<cfgFile, cfgWrites, config, settings, NEXT_STEPS,
                   language_components, build_sh, build_system, mcp_prompted,
                   enabled_servers, gemini_config, cursor_config, claude_config,
                   doc_summary, doc_steps,
                   vscode_extensions>>

-----------------------------------------------------------------------------
(* Language scaffolding                                                    *)

\* The package lists the user picks at a scaffolder's multi-choice prompt.
PythonPackageChoices == {<<>>, <<"requests">>}
RustCrateChoices == {<<>>, <<"anyhow">>}
FlutterPackageChoices == {<<>>, <<"http">>}

\* One external command per element of a list, all in the same directory
RECURSIVE CmdEach(_, _, _)
CmdEach(w, command, items) ==
    IF items = <<>> THEN w
    ELSE CmdEach(Cmd(w, command), command, Tail(items))

\* scaffold_python
scaffold_python(w, component_path, pytest, pkgs) ==
    LET w1 == Cmd(w, <<"python", "-m", "venv">>)
        w2 == Log(w1, <<"Component", PathName(component_path), "Python">>)
        w3 == IF pytest
              THEN write_file(Mkdir(w2, component_path \o <<"tests">>),
                              component_path \o <<"tests", "test_sample.py">>)
              ELSE w2
        reqs == (IF pytest THEN <<"pytest">> ELSE <<>>) \o pkgs
    IN  IF reqs # <<>>
        THEN write_file(w3, component_path \o <<"requirements.txt">>)
        ELSE w3

\* scaffold_cpp
scaffold_cpp(w, component_path, qt, gtest) ==
    LET w1 == Mkdir(w, component_path \o <<"src">>)
        w2 == Mkdir(w1, component_path \o <<"include">>)
        w3 == write_file(w2, component_path \o <<"src", "main.cpp">>)
        w4 == IF qt \/ gtest
              THEN write_file(Mkdir(w3, component_path \o <<"tests">>),
                              component_path \o <<"tests", "test_main.cpp">>)
              ELSE w3
        w5 == write_file(w4, component_path \o <<"CMakeLists.txt">>)
    IN  Log(w5, <<"Component", PathName(component_path), "C++">>)

\* cargo init in a directory that exists leaves the manifest and a source file
CargoInit(w, component_path) ==
    [w EXCEPT !.dirs = @ \cup {component_path \o <<"src">>},
              !.files = @ \cup {component_path \o <<"Cargo.toml">>,
                                component_path \o <<"src", "main.rs">>}]

\* scaffold_rust
scaffold_rust(w, component_path, rustc, cargo, crates) ==
    IF ~Truthy(run_command(rustc)) THEN Cmd(w, <<"rustc", "--version">>)
    ELSE LET w1 == Cmd(w, <<"rustc", "--version">>)
             w2 == Cmd(w1, <<"cargo", "init">>)
             w3 == IF Truthy(run_command(cargo)) THEN CargoInit(w2, component_path)
                   ELSE w2
             w4 == Log(w3, <<"Component", PathName(component_path), "Rust">>)
         IN  CmdEach(w4, <<"cargo", "add">>, crates)

\* flutter create <name>, run in the parent directory, leaves the project
\* directory and its manifest
FlutterCreate(w, component_path) ==
    [w EXCEPT !.dirs = @ \cup {component_path, component_path \o <<"lib">>},
              !.files = @ \cup {component_path \o <<"pubspec.yaml">>,
                                component_path \o <<"lib", "main.dart">>}]

\* scaffold_flutter
scaffold_flutter(w, component_path, flutter, create, pkgs) ==
    IF ~Truthy(run_command(flutter)) THEN Cmd(w, <<"flutter", "--version">>)
    ELSE LET w1 == Cmd(w, <<"flutter", "--version">>)
             w2 == Cmd(w1, <<"flutter", "create">>)
             w3 == IF Truthy(run_command(create)) THEN FlutterCreate(w2, component_path)
                   ELSE w2
             w4 == Log(w3, <<"Component", PathName(component_path), "Dart/Flutter">>)
         IN  CmdEach(w4, <<"flutter", "pub", "add">>, pkgs)

\* The loop of main walking the list from its end
NextLangMutant ==
    settings.languages[Len(settings.languages) - Len(language_components)]

\* The language the loop of main (line 438) handles next
NextLang == settings.languages[Len(language_components) + 1]

\* ask_question("Enter subdirectory name for ...", default=lang.lower())
ComponentNames(lang) ==
    IF is_multilang THEN {Lower(lang)} \cup CustomNames ELSE {Lower(lang)}

\* project_path / component_name if is_multilang else project_path
ComponentPath(component_name) ==
    IF is_multilang THEN NamePath(component_name) ELSE <<>>

\* main, lines 445-446: the component directory, except for Flutter
ComponentDir(lang, component_path) ==
    IF lang # "Dart/Flutter" /\ is_multilang THEN Mkdir(World, component_path)
    ELSE World

\* main, lines 448-449: the end of one loop iteration; an exception raised
\* in it ends the run with what was written so far
EndIteration(w, lang, component_name) ==
    /\ dirs' = w.dirs
    /\ files' = w.files
    /\ events' = w.events
    /\ SUMMARY_LOG' = w.log
    /\ phases' = Append(phases, lang)
    /\ IF w.raised
       THEN /\ pc' = "crashed"
            /\ halt' = "uncaught_oserror"
            /\ UNCHANGED language_components
       ELSE /\ language_components' =
                    Append(language_components, [name |-> component_name, lang |-> lang])
            /\ pc' = IF Len(language_components) + 1 = Len(settings.languages)
                     THEN "tooling" ELSE "scaffold"
            /\ UNCHANGED halt
    /\ UNCHANGED <<cfgFile, cfgWrites, config, settings, NEXT_STEPS, build_sh,
                   build_system, mcp_prompted, enabled_servers, gemini_config,
                   cursor_config, claude_config, doc_summary, doc_steps,
                   gitignore, vscode_extensions>>

\* One iteration of the loop for a Python component
ScaffoldPython ==
    /\ pc = "scaffold"
    /\ NextLang = "Python"
    /\ \E component_name \in ComponentNames("Python") :
       \E venv \in OutcomesHere, pytest \in BOOLEAN, pkgs \in PythonPackageChoices :
          LET component_path == ComponentPath(component_name)
              w == ComponentDir("Python", component_path)
          IN  /\ run_command(venv) \in {"result", None}
              /\ EndIteration(scaffold_python(w, component_path, pytest, pkgs),
                              "Python", component_name)

\* One iteration of the loop for a C++ component
ScaffoldCpp ==
    /\ pc = "scaffold"
    /\ NextLang = "C++"
    /\ \E component_name \in ComponentNames("C++") :
       \E qt \in BOOLEAN, gtest \in BOOLEAN :
          LET component_path == ComponentPath(component_name)
              w == ComponentDir("C++", component_path)
          IN  /\ qt => ~gtest   \* the second question is asked only after a "no"
              /\ EndIteration(scaffold_cpp(w, component_path, qt, gtest),
                              "C++", component_name)

\* One iteration of the loop for a Rust component
ScaffoldRust ==
    /\ pc = "scaffold"
    /\ NextLang = "Rust"
    /\ \E component_name \in ComponentNames("Rust") :
       \E rustc \in OutcomesHere, crates \in RustCrateChoices :
          LET component_path == ComponentPath(component_name)
              w == ComponentDir("Rust", component_path)
          IN  \E cargo \in (IF w.raised THEN {"missing"} ELSE Outcomes(w, component_path)) :
                 EndIteration(scaffold_rust(w, component_path, rustc, cargo, crates),
                              "Rust", component_name)

\* One iteration of the loop for a Dart/Flutter component
ScaffoldFlutter ==
    /\ pc = "scaffold"
    /\ NextLang = "Dart/Flutter"
    /\ \E component_name \in ComponentNames("Dart/Flutter") :
       \E flutter \in OutcomesHere, pkgs \in FlutterPackageChoices :
          LET component_path == ComponentPath(component_name)
              w == ComponentDir("Dart/Flutter", component_path)
          IN  \E create \in Outcomes(w, PathParent(component_path)) :
                 EndIteration(scaffold_flutter(w, component_path, flutter, create, pkgs),
                              "Dart/Flutter", component_name)

-----------------------------------------------------------------------------
(* Python built-ins: sorted, set                                           *)

\* The position of x in a table that lists strings in the order Python
\* compares them (by code point)
IndexIn(order, x) == CHOOSE i \in 1..Len(order) : order[i] = x

Range(seq) == {seq[i] : i \in 1..Len(seq)}

\* sorted(seq), key[x] being x's position in the order: insertion sort, equal
\* elements are all kept
RECURSIVE Insert(_, _, _)
Insert(x, sorted, key) ==
    IF sorted = <<>> THEN <<x>>
    ELSE IF key[x] < key[Head(sorted)] THEN <<x>> \o sorted
    ELSE <<Head(sorted)>> \o Insert(x, Tail(sorted), key)

RECURSIVE Sorted(_, _)
Sorted(seq, key) ==
    IF seq = <<>> THEN <<>>
    ELSE Insert(Head(seq), Sorted(Tail(seq), key), key)

\* list(set(seq)): one element per distinct value (in any order; it is sorted next)
RECURSIVE Distinct(_)
Distinct(seq) ==
    IF seq = <<>> THEN <<>>
    ELSE LET rest == Distinct(Tail(seq))
         IN  IF \E i \in 1..Len(rest) : rest[i] = Head(seq) THEN rest
             ELSE <<Head(seq)>> \o rest

-----------------------------------------------------------------------------
(* Top-level tooling                                                       *)

\* build_commands of generate_toplevel_build_script and configure_ai_tools
build_commands ==
    [lang \in Langs |->
        CASE lang = "C++" -> <<"cmake", "--build", "./build">>
          [] lang = "Rust" -> <<"cargo", "build">>
          [] lang = "Dart/Flutter" -> <<"flutter", "build">>
          [] lang = "Python" -> <<"echo", "'Python", "component", "has", "no",
                                  "build", "step.'">>]

\* One line of build.sh: the directive, or "(cd <dir> && <cmd>)"
ScriptLine(line, lang, dir, cmd) == [line |-> line, lang |-> lang, dir |-> dir, cmd |-> cmd]

\* generate_toplevel_build_script: the loop over the components
RECURSIVE BuildBlocks(_)
RECURSIVE BuildBlocksMutant(_)
BuildBlocksMutant(components) ==
    IF components = <<>> THEN <<>>
    ELSE LET comp == Head(components)
             cmd == Get(build_commands, comp.lang)
         IN  (IF cmd # None /\ comp.lang # "Python"
              THEN <<ScriptLine("cd", comp.lang, comp.name, cmd)>>
              ELSE <<>>) \o BuildBlocksMutant(Tail(components))

BuildBlocks(components) ==
    IF components = <<>> THEN <<>>
    ELSE LET comp == Head(components)
             cmd == Get(build_commands, comp.lang)
         IN  (IF cmd # None
              THEN <<ScriptLine("cd", comp.lang, comp.name, cmd)>>
              ELSE <<>>) \o BuildBlocks(Tail(components))

\* generate_toplevel_build_script: the text written to build.sh
BuildScript(components) ==
    <<ScriptLine("set -e", "", "", <<>>)>> \o BuildBlocks(components)

\* get_vscode_extensions: ext_map
ext_map ==
    [lang \in Langs |->
        CASE lang = "Python" -> <<"ms-python.python", "ms-python.vscode-pylance",
                                  "charliermarsh.ruff">>
          [] lang = "C++" -> <<"ms-vscode.cpptools", "ms-vscode.cmake-tools">>
          [] lang = "Rust" -> <<"rust-lang.rust-analyzer", "vadimcn.vscode-lldb">>
          [] lang = "Dart/Flutter" -> <<"Dart-Code.dart-code", "Dart-Code.flutter">>]

\* get_vscode_extensions: base after the four appends for the AI tools
ExtensionBase(selected_tools) ==
    <<"github.vscode-pull-request-github", "ms-vscode.remote-containers">>
    \o (IF "Gemini" \in selected_tools THEN <<"Google.gemini">> ELSE <<>>)
    \o (IF "Cursor" \in selected_tools THEN <<"cursor.cursor-vscode">> ELSE <<>>)
    \o (IF "Claude" \in selected_tools THEN <<"Anthropic.anthropic-vscode">> ELSE <<>>)
    \o (IF "GitHub Copilot" \in selected_tools
        THEN <<"github.copilot", "github.copilot-chat">> ELSE <<>>)

\* get_vscode_extensions: what the loop over the languages adds, in the order
\* it adds it
RECURSIVE LanguageExtensions(_)
LanguageExtensions(languages) ==
    IF languages = <<>> THEN <<>>
    ELSE LET exts == Get(ext_map, Head(languages))
         IN  (IF exts = None THEN <<>> ELSE exts) \o LanguageExtensions(Tail(languages))

\* Every extension id, in the order Python compares strings (upper case
\* before lower case)
ExtensionOrder ==
    <<"Anthropic.anthropic-vscode", "Dart-Code.dart-code", "Dart-Code.flutter",
      "Google.gemini", "charliermarsh.ruff", "cursor.cursor-vscode",
      "github.copilot", "github.copilot-chat", "github.vscode-pull-request-github",
      "ms-python.python", "ms-python.vscode-pylance", "ms-vscode.cmake-tools",
      "ms-vscode.cpptools", "ms-vscode.remote-containers",
      "rust-lang.rust-analyzer", "vadimcn.vscode-lldb">>

\* The position of every extension id among all extension ids
ExtensionKey == [ext \in Range(ExtensionOrder) |-> IndexIn(ExtensionOrder, ext)]

\* The recommendations kept as a list: appended in order, never sorted
get_vscode_extensionsMutant(languages, selected_tools) ==
    ExtensionBase(selected_tools) \o LanguageExtensions(languages)

\* get_vscode_extensions: sorted(list(final_exts)), final_exts being the set of
\* the base and of every listed language's extensions
get_vscode_extensions(languages, selected_tools) ==
    LET final_exts == Distinct(ExtensionBase(selected_tools)
                               \o LanguageExtensions(languages))
    IN  Sorted(final_exts, ExtensionKey)

\* main, lines 451-471: build script, editor recommendations, Dockerfile,
\* CI workflow and Copilot configuration
toplevel_tooling ==
    /\ pc = "tooling"
    /\ LET w1 == IF is_multilang
                 THEN Log(write_file(World, <<"build.sh">>), <<"Build System", "", "">>)
                 ELSE World
           w2 == Log(write_file(w1, <<".vscode", "extensions.json">>), <<"IDE", "", "">>)
           w3 == IF settings.use_docker
                 THEN Log(write_file(w2, <<"Dockerfile">>), <<"Containerization", "", "">>)
                 ELSE w2
           w4 == IF settings.use_ci
                 THEN Log(write_file(w3, <<".github", "workflows", "ci.yml">>),
                          <<"CI/CD", "", "">>)
                 ELSE w3
           w5 == IF "GitHub Copilot" \in settings.ai_tools
                 THEN Log(write_file(w4, <<".github", "copilot", "config.yml">>),
                          <<"GitHub Copilot", "", "">>)
                 ELSE w4
       IN  /\ build_sh' = IF is_multilang THEN BuildScript(language_components)
                          ELSE build_sh
           /\ vscode_extensions' = get_vscode_extensions(settings.languages,
                                                         settings.ai_tools)
           /\ dirs' = w5.dirs
           /\ files' = w5.files
           /\ events' = w5.events
           /\ SUMMARY_LOG' = w5.log
    /\ NEXT_STEPS' = Append(NEXT_STEPS, "If using VS Code, open the project and install recommended extensions when prompted.")
    /\ phases' = Append(phases, "tooling")
    /\ pc' = "ai"
    /\ UNCHANGED <<halt, cfgFile, cfgWrites, config, settings, language_components,
                   build_system, mcp_prompted, enabled_servers, gemini_config,
                   cursor_config, claude_config, doc_summary, doc_steps,
                   gitignore>>

-----------------------------------------------------------------------------
(* AI tooling and MCP configuration                                        *)

\* A server descriptor; a descriptor without 'env' has the empty mapping
Server(command, args, env) == [command |-> command, args |-> args, env |-> env]

\* list(all_servers.keys())
ServerNames ==
    <<"github", "sequential-thinking", "notion", "Context7", "taskmaster-ai",
      "build-system", "filesystem", "code-ast">>

\* configure_ai_tools: all_servers as first built (lines 320-330)
all_servers ==
    [name \in {ServerNames[i] : i \in 1..Len(ServerNames)} |->
        CASE name = "github" ->
                Server("npx", <<"-y", "@modelcontextprotocol/server-github">>,
                       [v \in {"GITHUB_PERSONAL_ACCESS_TOKEN"} |->
                            "${env:GITHUB_PERSONAL_ACCESS_TOKEN}"])
          [] name = "sequential-thinking" ->
                Server("npx", <<"-y", "@modelcontextprotocol/server-sequential-thinking">>,
                       <<>>)
          [] name = "notion" ->
                Server("npx", <<"-y", "mcp-server-notion">>,
                       [v \in {"NOTION_API_KEY"} |-> "${env:NOTION_API_KEY}"])
          [] name = "Context7" ->
                Server("npx", <<"-y", "@upstash/context7-mcp">>, <<>>)
          [] name = "taskmaster-ai" ->
                Server("npx", <<"-y", "--package=task-master-ai", "task-master-ai">>,
                       [v \in {"GEMINI_API_KEY", "ANTHROPIC_API_KEY"} |->
                            IF v = "GEMINI_API_KEY" THEN "${env:GEMINI_API_KEY}"
                            ELSE "${env:ANTHROPIC_API_KEY}"])
          [] name = "build-system" -> Server("./build.sh", <<>>, <<>>)
          [] name = "filesystem" ->
                Server("npx", <<"-y", "mcp-server-filesystem", "--root", ".">>, <<>>)
          [] name = "code-ast" -> Server("echo", <<"ast-mcp-not-implemented">>, <<>>)]

\* The rewrite with "< 1" for "<= 1"
BuildSystemServerMutant(components) ==
    IF Len(components) < 1
    THEN LET lang == IF components # <<>> THEN components[1].lang ELSE ""
         IN  IF lang \in DOMAIN build_commands
             THEN Server(Head(build_commands[lang]), Tail(build_commands[lang]), <<>>)
             ELSE all_servers["build-system"]
    ELSE all_servers["build-system"]

\* configure_ai_tools, lines 332-337: the build-system entry after the rewrite
BuildSystemServer(components) ==
    IF Len(components) <= 1
    THEN LET lang == IF components # <<>> THEN components[1].lang ELSE ""
         IN  IF lang \in DOMAIN build_commands
             THEN Server(Head(build_commands[lang]), Tail(build_commands[lang]), <<>>)
             ELSE all_servers["build-system"]
    ELSE all_servers["build-system"]

\* val.startswith("${env:") and val.endswith("}")
IsEnvPlaceholder(val) ==
    val \in {"${env:GITHUB_PERSONAL_ACCESS_TOKEN}", "${env:NOTION_API_KEY}",
             "${env:GEMINI_API_KEY}", "${env:ANTHROPIC_API_KEY}"}

\* val[6:-1].split(":")[0]
VarName(val) ==
    CASE val = "${env:GITHUB_PERSONAL_ACCESS_TOKEN}" -> "GITHUB_PERSONAL_ACCESS_TOKEN"
      [] val = "${env:NOTION_API_KEY}" -> "NOTION_API_KEY"
      [] val = "${env:GEMINI_API_KEY}" -> "GEMINI_API_KEY"
      [] val = "${env:ANTHROPIC_API_KEY}" -> "ANTHROPIC_API_KEY"

\* var_name.replace('_PERSONAL_ACCESS_TOKEN', '')
StripToken(var_name) ==
    IF var_name = "GITHUB_PERSONAL_ACCESS_TOKEN" THEN "GITHUB" ELSE var_name

\* .replace('_API_KEY', '')
StripApiKey(var_name) ==
    CASE var_name = "NOTION_API_KEY" -> "NOTION"
      [] var_name = "GEMINI_API_KEY" -> "GEMINI"
      [] var_name = "ANTHROPIC_API_KEY" -> "ANTHROPIC"
      [] OTHER -> var_name

\* .lower()
LowerVar(name) ==
    CASE name = "GITHUB" -> "github"
      [] name = "NOTION" -> "notion"
      [] name = "GEMINI" -> "gemini"
      [] name = "ANTHROPIC" -> "anthropic"

\* Line 365 without .lower()
ConfigKeyMutant(var_name) == StripApiKey(StripToken(var_name))

\* configure_ai_tools, line 365
ConfigKey(var_name) == LowerVar(StripApiKey(StripToken(var_name)))

\* f"YOUR_{var_name}_HERE"
PlaceholderFor(var_name) ==
    CASE var_name = "GITHUB_PERSONAL_ACCESS_TOKEN" -> "YOUR_GITHUB_PERSONAL_ACCESS_TOKEN_HERE"
      [] var_name = "NOTION_API_KEY" -> "YOUR_NOTION_API_KEY_HERE"
      [] var_name = "GEMINI_API_KEY" -> "YOUR_GEMINI_API_KEY_HERE"
      [] var_name = "ANTHROPIC_API_KEY" -> "YOUR_ANTHROPIC_API_KEY_HERE"

\* configure_ai_tools, lines 363-370: one environment entry of the Cursor file
ResolveEnv(val, api_keys) ==
    IF IsEnvPlaceholder(val)
    THEN LET var_name == VarName(val)
             retrieved_key == Get(api_keys, ConfigKey(var_name))
         IN  IF Truthy(retrieved_key) /\ ~ContainsYOUR(retrieved_key)
             THEN retrieved_key
             ELSE PlaceholderFor(var_name)
    ELSE val

\* configure_ai_tools, lines 359-371: the servers of the Cursor file
CursorServers(mcp_config_obj, api_keys) ==
    [name \in DOMAIN mcp_config_obj |->
        [mcp_config_obj[name] EXCEPT
            !.env = [key \in DOMAIN @ |-> ResolveEnv(@[key], api_keys)]]]

\* {name: all_servers[name] for name in enabled_servers}
McpConfigObj(servers, enabled) ==
    [name \in {enabled[i] : i \in 1..Len(enabled)} |-> servers[name]]

\* Python objects are shared, not copied, on assignment: a server descriptor is
\* an object at an address, and a configuration object maps each server name to
\* the address of its descriptor.
\* mcp_config_obj (line 349): its values are the descriptors of all_servers
ServerRefs(enabled) ==
    [name \in {enabled[i] : i \in 1..Len(enabled)} |-> <<"all_servers", name>>]

\* The addresses a configuration object refers to
RefSet(refs) == {refs[name] : name \in DOMAIN refs}

\* The configuration a file receives: every reference followed
Deref(heap, refs) == [name \in DOMAIN refs |-> heap[refs[name]]]

\* cursor_config_obj = dict(mcp_config_obj): the descriptors are shared
JsonCopyMutant(refs) == refs

\* json.loads(json.dumps(mcp_config_obj)), line 359: a new descriptor for every
\* server, equal to the one it was serialised from
JsonCopy(refs) == [name \in DOMAIN refs |-> <<"cursor_config_obj", name>>]

\* The descriptors after the Cursor block (lines 359-371): the copies exist and
\* the loop has assigned to the env entries of the descriptors that
\* cursor_config_obj refers to
HeapAfterCursor(servers, refs, cursor_refs, api_keys) ==
    LET heap == [a \in RefSet(refs) \cup RefSet(cursor_refs) |-> servers[a[2]]]
        resolved == CursorServers([a \in RefSet(cursor_refs) |-> heap[a]], api_keys)
    IN  [a \in DOMAIN heap |-> IF a \in DOMAIN resolved THEN resolved[a] ELSE heap[a]]

\* configure_ai_tools called whatever was selected
WantsAiConfigMutant(ai_tools) == TRUE

\* any(tool in settings['ai_tools'] for tool in ["Gemini", "Cursor", "Claude"])
WantsAiConfig(ai_tools) == ai_tools \cap {"Gemini", "Cursor", "Claude"} # {}

\* main, lines 473-474, and configure_ai_tools, the answer to its prompt being
\* drawn from the given set
configure_ai_tools(ServerChoices) ==
    /\ pc = "ai"
    /\ IF ~WantsAiConfig(settings.ai_tools)
       THEN UNCHANGED <<dirs, files, events, SUMMARY_LOG, NEXT_STEPS, build_system,
                        mcp_prompted, enabled_servers, gemini_config, cursor_config,
                        claude_config>>
       ELSE \E enabled \in ServerChoices :
            LET servers == [all_servers EXCEPT
                                !["build-system"] = BuildSystemServer(language_components)]
                mcp_config_obj == McpConfigObj(servers, enabled)
                selected_tools == settings.ai_tools
                refs == ServerRefs(enabled)
                cursor_refs == JsonCopy(refs)
                heap == [a \in RefSet(refs) |-> servers[a[2]]]
                heap_after_cursor ==
                    IF "Cursor" \in selected_tools
                    THEN HeapAfterCursor(servers, refs, cursor_refs, config.API_KEYS)
                    ELSE heap
                taskmaster == \E i \in 1..Len(enabled) : enabled[i] = "taskmaster-ai"
                w1 == Log(World, <<"Enabled MCPs", "", "">>)
                w2 == IF taskmaster
                      THEN Log(w1, <<"AI Config", "Taskmaster AI configured.", "">>)
                      ELSE w1
                w3 == IF "Gemini" \in selected_tools
                      THEN Log(write_file(write_file(w2, <<".gemini", "settings.json">>),
                                          <<"GEMINI.md">>),
                               <<"AI Config", "Generated .gemini/settings.json.", "">>)
                      ELSE w2
                w4 == IF "Cursor" \in selected_tools
                      THEN Log(write_file(w3, <<".cursor", "mcp.json">>),
                               <<"AI Config", "Generated .cursor/mcp.json.", "">>)
                      ELSE w3
                w5 == IF "Claude" \in selected_tools
                      THEN Log(write_file(w4, <<".claude", "settings.json">>),
                               <<"AI Config", "Generated .claude/settings.json.", "">>)
                      ELSE w4
                steps1 == Append(NEXT_STEPS, "Some MCP servers require Node.js. Run npm install in the project root if you encounter npx errors.")
                steps2 == IF taskmaster
                          THEN Append(steps1, "IMPORTANT: To complete Taskmaster AI setup, run the following command in your terminal: npx -y task-master-ai init")
                          ELSE steps1
                steps3 == IF "Cursor" \in selected_tools
                          THEN Append(steps2, "Review .cursor/mcp.json and replace any placeholder API keys.")
                          ELSE steps2
            IN  /\ mcp_prompted' = TRUE
                /\ enabled_servers' = enabled
                /\ build_system' = servers["build-system"]
                /\ IF enabled = <<>>
                   THEN UNCHANGED <<dirs, files, events, SUMMARY_LOG, NEXT_STEPS,
                                    gemini_config, cursor_config, claude_config>>
                   ELSE /\ dirs' = w5.dirs
                        /\ files' = w5.files
                        /\ events' = w5.events
                        /\ SUMMARY_LOG' = w5.log
                        /\ NEXT_STEPS' = steps3
                        /\ gemini_config' = IF "Gemini" \in selected_tools
                                            THEN mcp_config_obj ELSE gemini_config
                        /\ cursor_config' = IF "Cursor" \in selected_tools
                                            THEN Deref(heap_after_cursor, cursor_refs)
                                            ELSE cursor_config
                        /\ claude_config' = IF "Claude" \in selected_tools
                                            THEN Deref(heap_after_cursor, refs)
                                            ELSE claude_config
    /\ pc' = "github"
    /\ UNCHANGED <<halt, cfgFile, cfgWrites, config, settings, phases,
                   language_components, build_sh, doc_summary, doc_steps,
                   gitignore, vscode_extensions>>

-----------------------------------------------------------------------------
(* Remote repository                                                       *)

\* main, lines 481-490: the repository check and what follows it, given the
\* outcomes of the four commands
RemoteRepository(w, view, remove, add, create) ==
    LET repo_check == subprocess_run(view)
        w1 == Cmd(w, <<"gh", "repo", "view">>)
    IN  IF repo_check = "raise" THEN Raise(w1)
        ELSE IF repo_check = "0"
        THEN LET u1 == Log(w1, <<"GitHub", "Using existing repository", "">>)
                 u2 == Cmd(u1, <<"git", "remote", "remove">>)
                 u3 == IF subprocess_run(remove) = "raise" THEN Raise(u2) ELSE u2
             IN  IF run_command(add) \in {"result", None}
                 THEN Cmd(u3, <<"git", "remote", "add">>) ELSE u3
        ELSE LET u1 == Cmd(w1, <<"gh", "repo", "create">>)
             IN  IF Truthy(run_command(create))
                 THEN Log(u1, <<"GitHub", "Created new private repository", "">>)
                 ELSE u1

\* The outcomes of the four commands that can differ in their effect: the
\* commands after the check run only on one of its branches
RemoteOutcomes ==
    {<<"missing", "ok", "ok", "ok">>} \cup
    {<<"ok", remove, add, "ok">> : remove \in OutcomesHere, add \in OutcomesHere} \cup
    {<<"failed", "ok", "ok", create>> : create \in OutcomesHere}

\* main, lines 476-493: the GitHub repository
github_setup ==
    /\ pc = "github"
    /\ IF settings.use_github /\ Truthy(config.github_username)
       THEN \E o \in RemoteOutcomes :
            LET w2 == RemoteRepository(World, o[1], o[2], o[3], o[4])
            IN  /\ events' = w2.events
                /\ SUMMARY_LOG' = w2.log
                /\ phases' = Append(phases, "remote")
                /\ IF w2.raised
                   THEN /\ pc' = "crashed"
                        /\ halt' = "uncaught_command_error"
                        /\ UNCHANGED NEXT_STEPS
                   ELSE /\ pc' = "doc"
                        /\ NEXT_STEPS' = Append(NEXT_STEPS, "Push the initial commit to GitHub: git add . && git commit -m 'Initial commit' && git push -u origin main.")
                        /\ UNCHANGED halt
       ELSE \* not asked for, or "[Skipped] GitHub repo creation requires a username"
            /\ pc' = "doc"
            /\ phases' = IF settings.use_github THEN Append(phases, "remote") ELSE phases
            /\ UNCHANGED <<events, SUMMARY_LOG, NEXT_STEPS, halt>>
    /\ UNCHANGED <<cfgFile, cfgWrites, config, settings, dirs, files,
                   language_components, build_sh, build_system, mcp_prompted,
                   enabled_servers, gemini_config, cursor_config, claude_config,
                   doc_summary, doc_steps,
                   gitignore, vscode_extensions>>

-----------------------------------------------------------------------------
(* Documentation                                                           *)

\* Every string of a summary entry, in the order Python compares strings
\* (by code point)
StringOrder ==
    <<"", "C++", "Created new private repository", "Dart/Flutter",
      "Generated .claude/settings.json.", "Generated .cursor/mcp.json.",
      "Generated .gemini/settings.json.", "Multi-Language", "Python", "Rust",
      "Single-Language", "Taskmaster AI configured.", "Using existing repository",
      "app", "c++", "flutter", "my-new-project", "python", "rust">>

\* The headings of the summary entries, in the order of their rendered text
\* ("* **GitHub Copilot:**" sorts before "* **GitHub:**", a space before a colon)
HeadingOrder ==
    <<"AI Config", "Build System", "CI/CD", "Component", "Containerization",
      "Enabled MCPs", "GitHub Copilot", "GitHub", "IDE", "Project Type", "Project">>

\* The next steps, in the order Python compares strings
StepOrder ==
    <<"IMPORTANT: To complete Taskmaster AI setup, run the following command in your terminal: npx -y task-master-ai init",
      "If using VS Code, open the project and install recommended extensions when prompted.",
      "Push the initial commit to GitHub: git add . && git commit -m 'Initial commit' && git push -u origin main.",
      "Review .cursor/mcp.json and replace any placeholder API keys.",
      "Some MCP servers require Node.js. Run npm install in the project root if you encounter npx errors.">>

\* The position of a rendered summary entry among all entries: heading first,
\* then the two strings
EntryKey(e) ==
    (IndexIn(HeadingOrder, e[1]) * 100 + IndexIn(StringOrder, e[2])) * 100
        + IndexIn(StringOrder, e[3])

\* The position of a next step among all next steps
StepKey(step) == IndexIn(StepOrder, step)

\* main, line 498: the summary section
RenderSummary(log) == Sorted(log, [e \in Range(log) |-> EntryKey(e)])

\* main, lines 499-502: the numbered next steps
RenderSteps(steps) ==
    LET sorted == Sorted(Distinct(steps), [x \in Range(steps) |-> StepKey(x)])
    IN  [i \in 1..Len(sorted) |-> <<i, sorted[i]>>]

\* main, lines 495-507: doc/GETTING_STARTED.md
generate_documentation ==
    /\ pc = "doc"
    /\ LET w1 == MkdirExistOk(World, <<"doc">>)
           w2 == write_file(w1, <<"doc", "GETTING_STARTED.md">>)
       IN  /\ dirs' = w2.dirs
           /\ files' = w2.files
           /\ events' = w2.events
           /\ IF w2.raised
              THEN /\ pc' = "crashed"
                   /\ halt' = "uncaught_oserror"
                   /\ UNCHANGED <<doc_summary, doc_steps>>
              ELSE /\ pc' = "done"
                   /\ doc_summary' = RenderSummary(SUMMARY_LOG)
                   /\ doc_steps' = IF NEXT_STEPS # <<>> THEN RenderSteps(NEXT_STEPS)
                                   ELSE <<>>
                   /\ UNCHANGED halt
    /\ phases' = Append(phases, "document")
    /\ UNCHANGED <<cfgFile, cfgWrites, config, settings, SUMMARY_LOG, NEXT_STEPS,
                   language_components, build_sh, build_system, mcp_prompted,
                   enabled_servers, gemini_config, cursor_config, claude_config,
                   gitignore, vscode_extensions>>

-----------------------------------------------------------------------------
(* The run                                                                 *)

\* Spec explores the scaffolding in breadth: every language list of up to
\* MaxLangs entries, every subdirectory name, every scaffolder answer and
\* command outcome; the optional steps (Dockerfile, CI, AI tools, remote
\* repository) are all declined or all taken.
ScaffoldConfigFiles ==
    [exists : {TRUE}, github_username : {"octocat"}, API_KEYS : {RealApiKeys}]

ScaffoldAnswers ==
    {[use_docker |-> on, use_ci |-> on, use_github |-> on,
      ai_tools |-> IF on THEN AiTools ELSE {}] : on \in BOOLEAN}

ScaffoldServerChoices == {ServerNames}

Init == InitWith(ScaffoldConfigFiles)

Next ==
    \/ get_or_create_config
    \/ get_project_settings(select_many(all_langs, MaxLangs), ScaffoldAnswers)
    \/ create_project
    \/ ScaffoldPython
    \/ ScaffoldCpp
    \/ ScaffoldRust
    \/ ScaffoldFlutter
    \/ toplevel_tooling
    \/ configure_ai_tools(ScaffoldServerChoices)
    \/ github_setup
    \/ generate_documentation

Spec == Init /\ [][Next]_vars

\* SpecTools explores the AI tooling in breadth: every set of AI tools, the
\* server selections below and three API_KEYS sections, for each
\* single-language project and one two-language project, without a remote
\* repository.
ToolsConfigFiles ==
    [exists : {TRUE}, github_username : {"octocat"},
     API_KEYS : {DefaultApiKeys, RealApiKeys, PartialApiKeys}]

ToolsLanguageLists == {<<>>, <<"C++", "Python">>}

ToolsAnswers ==
    [use_docker : BOOLEAN, use_ci : BOOLEAN, use_github : {FALSE},
     ai_tools : SUBSET AiTools]

ToolsServerChoices ==
    {<<>>, <<"build-system">>, <<"taskmaster-ai">>, <<"notion", "github">>, ServerNames}

InitTools == InitWith(ToolsConfigFiles)

NextTools ==
    \/ get_or_create_config
    \/ get_project_settings(ToolsLanguageLists, ToolsAnswers)
    \/ create_project
    \/ ScaffoldPython
    \/ ScaffoldCpp
    \/ ScaffoldRust
    \/ ScaffoldFlutter
    \/ toplevel_tooling
    \/ configure_ai_tools(ToolsServerChoices)
    \/ github_setup
    \/ generate_documentation

SpecTools == InitTools /\ [][NextTools]_vars

\* SpecConfig explores the persisted configuration in breadth: a missing file,
\* a missing or present github_username, every answer to the prompt for it and
\* three API_KEYS sections, for single-language projects with the optional
\* tooling all off or all on, with and without a remote repository.
ConfigConfigFiles ==
    [exists : {TRUE}, github_username : UserNames,
     API_KEYS : {DefaultApiKeys, RealApiKeys, PartialApiKeys}]

ConfigLanguageLists == {<<>>}

ConfigAnswers ==
    {[use_docker |-> on, use_ci |-> on, use_github |-> gh,
      ai_tools |-> IF on THEN AiTools ELSE {}] : on \in BOOLEAN, gh \in BOOLEAN}

InitConfig == InitWith(ConfigConfigFiles)

NextConfig ==
    \/ get_or_create_config
    \/ get_project_settings(ConfigLanguageLists, ConfigAnswers)
    \/ create_project
    \/ ScaffoldPython
    \/ ScaffoldCpp
    \/ ScaffoldRust
    \/ ScaffoldFlutter
    \/ toplevel_tooling
    \/ configure_ai_tools(ScaffoldServerChoices)
    \/ github_setup
    \/ generate_documentation

SpecConfig == InitConfig /\ [][NextConfig]_vars

-----------------------------------------------------------------------------
(* Properties                                                              *)

\* The run found the project directory already there.
TargetWasThere == ExistingFiles \subseteq files /\ pc \notin {"start", "settings", "create", "exited"}

\* C1 as stated: when main() finds a directory with the project's name, the
\* run aborts and has created or modified no file or directory at all (the
\* persisted configuration included), has appended no summary-log or
\* next-steps entry, and the directory is as it was.
C1_NothingWrittenAtAll ==
    TargetWasThere =>
        /\ halt = "target_exists"
        /\ cfgWrites = 0
        /\ dirs = ExistingDirs /\ files = ExistingFiles /\ events = <<>>
        /\ SUMMARY_LOG = <<>> /\ NEXT_STEPS = <<>>

\* C1 as amended: when main() finds a directory with the project's name, the
\* run aborts before anything is created or modified at or below the project
\* directory, which is left exactly as it was, before any external command,
\* and before any summary-log or next-steps entry; the one file the run may
\* have written by then is the persisted configuration, once, to store the
\* GitHub username it asked for, its API keys unchanged.
C1_AbortLeavesTargetUntouched ==
    TargetWasThere =>
        /\ pc = "aborted" /\ halt = "target_exists"
        /\ dirs = ExistingDirs /\ files = ExistingFiles /\ events = <<>>
        /\ SUMMARY_LOG = <<>> /\ NEXT_STEPS = <<>>
        /\ doc_summary = <<>> /\ doc_steps = <<>>
        /\ cfgWrites \in {0, 1}
        /\ cfgWrites = 1 => Truthy(cfgFile.github_username)
        /\ cfgFile.API_KEYS = config.API_KEYS

\* A run aborted at the existence check after it had stored the username.
C1_Witness ==
    pc = "aborted" /\ halt = "target_exists" /\ files = ExistingFiles /\ cfgWrites = 1

\* C2: no failure of an external command (a missing binary, a non-zero exit)
\* halts the run.
C2_NoCommandFailureHaltsRun == halt # "uncaught_command_error"

\* The top-level tooling phase has run.
ToolingDone == \E i \in 1..Len(phases) : phases[i] = "tooling"

\* C3: with two or more languages selected, build.sh is written and is the
\* fail-fast directive followed by exactly one build invocation per selected
\* language, in selection order, each inside the subdirectory chosen for that
\* language and running that language's build command, whether or not the
\* language's scaffolder returned early.
C3_BuildScriptPerLanguage ==
    (ToolingDone /\ Len(settings.languages) >= 2) =>
        /\ <<"build.sh">> \in files
        /\ Len(build_sh) = 1 + Len(settings.languages)
        /\ build_sh[1].line = "set -e"
        /\ Len(language_components) = Len(settings.languages)
        /\ \A i \in 1..Len(settings.languages) :
              /\ build_sh[i + 1].line = "cd"
              /\ build_sh[i + 1].lang = settings.languages[i]
              /\ build_sh[i + 1].dir = language_components[i].name
              /\ language_components[i].name \in
                    {Lower(settings.languages[i])} \cup CustomNames
              /\ build_sh[i + 1].cmd =
                    CASE settings.languages[i] = "C++" -> <<"cmake", "--build", "./build">>
                      [] settings.languages[i] = "Rust" -> <<"cargo", "build">>
                      [] settings.languages[i] = "Dart/Flutter" -> <<"flutter", "build">>
                      [] settings.languages[i] = "Python" ->
                            <<"echo", "'Python", "component", "has", "no", "build", "step.'">>

\* A finished two-language run whose Rust scaffolder returned early (no Rust
\* component was logged) and whose build.sh still builds the Rust component.
C3_Witness ==
    /\ pc = "done"
    /\ Len(settings.languages) >= 2
    /\ \E i \in 1..Len(settings.languages) : settings.languages[i] = "Rust"
    /\ \A i \in 1..Len(SUMMARY_LOG) : SUMMARY_LOG[i][3] # "Rust"
    /\ \E i \in 1..Len(build_sh) : build_sh[i].lang = "Rust"

\* The API_KEYS key under which get_or_create_config stores the value of an
\* environment variable
StoredKey(var_name) ==
    CASE var_name = "GITHUB_PERSONAL_ACCESS_TOKEN" -> "github_personal_access_token"
      [] var_name = "NOTION_API_KEY" -> "notion"
      [] var_name = "GEMINI_API_KEY" -> "gemini"
      [] var_name = "ANTHROPIC_API_KEY" -> "anthropic"

\* The placeholder YOUR_<NAME>_HERE
YourNameHere(var_name) ==
    CASE var_name = "GITHUB_PERSONAL_ACCESS_TOKEN" -> "YOUR_GITHUB_PERSONAL_ACCESS_TOKEN_HERE"
      [] var_name = "NOTION_API_KEY" -> "YOUR_NOTION_API_KEY_HERE"
      [] var_name = "GEMINI_API_KEY" -> "YOUR_GEMINI_API_KEY_HERE"
      [] var_name = "ANTHROPIC_API_KEY" -> "YOUR_ANTHROPIC_API_KEY_HERE"

\* A stored value that is a key and not a placeholder, a blank or nothing
RealValue(value) ==
    value \notin {None, "", "YOUR_GEMINI_API_KEY_HERE", "YOUR_ANTHROPIC_API_KEY_HERE",
                  "YOUR_NOTION_API_KEY_HERE", "YOUR_GITHUB_PAT_HERE"}

CursorWritten == <<".cursor", "mcp.json">> \in files

\* C4: in the Cursor configuration every environment entry of every enabled
\* server is the value stored for it in API_KEYS when that value is real, and
\* YOUR_<NAME>_HERE otherwise.
C4_EveryEnvEntryResolved ==
    CursorWritten =>
        \A name \in DOMAIN cursor_config :
            \A var \in DOMAIN cursor_config[name].env :
                LET stored == Get(config.API_KEYS, StoredKey(var))
                IN  cursor_config[name].env[var] =
                        IF RealValue(stored) THEN stored ELSE YourNameHere(var)

\* The file that is the build manifest of a single-language project
Manifest(lang) ==
    CASE lang = "Python" -> <<"requirements.txt">>
      [] lang = "C++" -> <<"CMakeLists.txt">>
      [] lang = "Rust" -> <<"Cargo.toml">>
      [] lang = "Dart/Flutter" -> <<"pubspec.yaml">>

\* C5: a single-language run that completes leaves the language's build
\* manifest in the project root, whatever the answers to the scaffolder's
\* optional prompts.
C5_ManifestInProjectRoot ==
    (pc = "done" /\ Len(settings.languages) = 1) =>
        Manifest(settings.languages[1]) \in files

\* C6: the summary section of GETTING_STARTED.md holds every distinct entry of
\* the summary log exactly once, in sorted order, and the next steps are the
\* distinct steps, sorted and numbered 1..n.
C6_SummarySortedDeduplicated ==
    pc = "done" =>
        /\ Range(doc_summary) = Range(SUMMARY_LOG)
        /\ \A i, j \in 1..Len(doc_summary) :
              i < j => EntryKey(doc_summary[i]) < EntryKey(doc_summary[j])
        /\ {doc_steps[i][2] : i \in 1..Len(doc_steps)} = Range(NEXT_STEPS)
        /\ \A i \in 1..Len(doc_steps) : doc_steps[i][1] = i
        /\ \A i, j \in 1..Len(doc_steps) :
              i < j => StepKey(doc_steps[i][2]) < StepKey(doc_steps[j][2])

\* The configuration files of the AI tools
AiConfigFiles ==
    {<<".gemini", "settings.json">>, <<"GEMINI.md">>, <<".cursor", "mcp.json">>,
     <<".claude", "settings.json">>, <<".github", "copilot", "config.yml">>}

\* The summary entries and next steps about AI configuration and MCP servers
AiHeadings == {"AI Config", "Enabled MCPs", "GitHub Copilot"}
AiSteps ==
    {"Some MCP servers require Node.js. Run npm install in the project root if you encounter npx errors.",
     "IMPORTANT: To complete Taskmaster AI setup, run the following command in your terminal: npx -y task-master-ai init",
     "Review .cursor/mcp.json and replace any placeholder API keys."}

\* C7: with no AI tool selected, no AI-tool configuration file is written,
\* the MCP-server prompt is never shown, and neither list receives an entry
\* about AI configuration or MCP servers.
C7_NoToolsNoAiArtifacts ==
    (settings.ai_tools = {} /\ pc \notin {"start", "settings"}) =>
        /\ files \cap AiConfigFiles = {}
        /\ ~mcp_prompted
        /\ \A i \in 1..Len(SUMMARY_LOG) : SUMMARY_LOG[i][1] \notin AiHeadings
        /\ \A i \in 1..Len(NEXT_STEPS) : NEXT_STEPS[i] \notin AiSteps
        /\ gemini_config = <<>> /\ cursor_config = <<>> /\ claude_config = <<>>

\* A finished run in which no AI tool was selected.
C7_Witness == pc = "done" /\ settings.ai_tools = {} /\ settings.languages # <<>>

\* C8: when the Cursor configuration holds the server whose environment has
\* GEMINI_API_KEY, its value is exactly the value stored under gemini if that
\* is a real value, and the placeholder YOUR_GEMINI_API_KEY_HERE if the stored
\* value is the placeholder default or is missing.
C8_GeminiKeyResolved ==
    (CursorWritten /\ "taskmaster-ai" \in DOMAIN cursor_config) =>
        LET stored == Get(config.API_KEYS, "gemini")
            rendered == cursor_config["taskmaster-ai"].env["GEMINI_API_KEY"]
        IN  /\ RealValue(stored) => rendered = stored
            /\ ~RealValue(stored) => rendered = "YOUR_GEMINI_API_KEY_HERE"

\* A Cursor configuration that carries the stored Gemini key.
C8_Witness ==
    /\ CursorWritten
    /\ "taskmaster-ai" \in DOMAIN cursor_config
    /\ cursor_config["taskmaster-ai"].env["GEMINI_API_KEY"] = "AIza-gemini"

\* A Cursor configuration rendered from a file that has no gemini entry.
C8_WitnessMissing ==
    /\ CursorWritten
    /\ "taskmaster-ai" \in DOMAIN cursor_config
    /\ "gemini" \notin DOMAIN config.API_KEYS
    /\ cursor_config["taskmaster-ai"].env["GEMINI_API_KEY"] = "YOUR_GEMINI_API_KEY_HERE"

\* The direct build command of a language, split at its blanks
DirectBuild(lang) ==
    CASE lang = "C++" -> [command |-> "cmake", args |-> <<"--build", "./build">>]
      [] lang = "Rust" -> [command |-> "cargo", args |-> <<"build">>]
      [] lang = "Dart/Flutter" -> [command |-> "flutter", args |-> <<"build">>]
      [] lang = "Python" ->
            [command |-> "echo",
             args |-> <<"'Python", "component", "has", "no", "build", "step.'">>]

\* The build-system descriptors that reached a configuration file
WrittenBuildSystems ==
    {c["build-system"] : c \in {g \in {gemini_config, cursor_config, claude_config} :
                                    "build-system" \in DOMAIN g}}

\* C9: the build-system descriptor is ./build.sh without arguments exactly
\* when build.sh was generated in the run, that is when more than one language
\* was selected; in a single-language run it is the language's direct build
\* command, split into command and arguments, and there is no build.sh.
C9_BuildSystemMatchesBuildScript ==
    /\ (ToolingDone /\ Len(settings.languages) = 1) => <<"build.sh">> \notin files
    /\ ToolingDone => (<<"build.sh">> \in files <=> Len(settings.languages) > 1)
    /\ mcp_prompted =>
        /\ (build_system.command = "./build.sh" /\ build_system.args = <<>>)
                <=> <<"build.sh">> \in files
        /\ Len(settings.languages) = 1 =>
                /\ build_system.command = DirectBuild(settings.languages[1]).command
                /\ build_system.args = DirectBuild(settings.languages[1]).args
        /\ \A d \in WrittenBuildSystems :
                d.command = build_system.command /\ d.args = build_system.args

\* A single-language run whose written configuration carries the direct
\* build command.
C9_Witness ==
    /\ pc = "done"
    /\ Len(settings.languages) = 1
    /\ "build-system" \in DOMAIN claude_config
    /\ claude_config["build-system"].command = "cmake"

\* A two-language run whose written configuration points at build.sh.
C9_WitnessMulti ==
    /\ pc = "done"
    /\ Len(settings.languages) = 2
    /\ <<"build.sh">> \in files
    /\ "build-system" \in DOMAIN cursor_config
    /\ cursor_config["build-system"].command = "./build.sh"

\* The place of an event in the order of main(): project directory, git init
\* and .gitignore; the components; the top-level tooling, file by file; the
\* remote repository; the documentation.
EventRank(e) ==
    CASE e \in {<<"mkdir", <<>>>>, <<"cmd", <<"git", "init">>>>,
                <<"write", <<".gitignore">>>>} -> 10
      [] e = <<"write", <<"build.sh">>>> -> 31
      [] e = <<"write", <<".vscode", "extensions.json">>>> -> 32
      [] e = <<"write", <<"Dockerfile">>>> -> 33
      [] e = <<"write", <<".github", "workflows", "ci.yml">>>> -> 34
      [] e = <<"write", <<".github", "copilot", "config.yml">>>> -> 35
      [] e = <<"write", <<".gemini", "settings.json">>>> -> 36
      [] e = <<"write", <<"GEMINI.md">>>> -> 37
      [] e = <<"write", <<".cursor", "mcp.json">>>> -> 38
      [] e = <<"write", <<".claude", "settings.json">>>> -> 39
      [] e = <<"cmd", <<"gh", "repo", "view">>>> -> 41
      [] e \in {<<"cmd", <<"gh", "repo", "create">>>>,
                <<"cmd", <<"git", "remote", "remove">>>>} -> 42
      [] e = <<"cmd", <<"git", "remote", "add">>>> -> 43
      [] e = <<"mkdir", <<"doc">>>> -> 51
      [] e = <<"write", <<"doc", "GETTING_STARTED.md">>>> -> 52
      [] OTHER -> 20

\* The phases of a completed run, as the settings prescribe them
ExpectedPhases ==
    <<"configure", "scaffold">> \o settings.languages \o <<"tooling">>
        \o (IF settings.use_github THEN <<"remote">> ELSE <<>>) \o <<"document">>

\* C10: a run that completes has gone through configure, scaffold (.gitignore,
\* then each language in selection order), top-level tooling (build script,
\* editor file, container file, CI file, AI configurations), the optional
\* remote repository and the documentation, in that order and each once, and
\* doc/GETTING_STARTED.md is written once, after every other write and every
\* external command.
C10_LinearPhases ==
    pc = "done" =>
        /\ phases = ExpectedPhases
        /\ \A i \in 1..Len(settings.languages) :
              language_components[i].lang = settings.languages[i]
        /\ LET rank == [i \in 1..Len(events) |-> EventRank(events[i])]
           IN  \A i \in 1..(Len(events) - 1) :
                  \* never back to an earlier phase, and nothing after the
                  \* components is done twice
                  /\ rank[i] <= rank[i + 1]
                  /\ rank[i] > 20 => rank[i] < rank[i + 1]
        /\ events[Len(events)] = <<"write", <<"doc", "GETTING_STARTED.md">>>>
        /\ Cardinality({i \in 1..Len(events) :
                            events[i] = <<"write", <<"doc", "GETTING_STARTED.md">>>>}) = 1
        /\ <<"doc", "GETTING_STARTED.md">> \in files

\* A completed two-language run with every optional step taken.
C10_Witness ==
    /\ pc = "done"
    /\ Len(settings.languages) = 2
    /\ settings.use_github /\ settings.use_docker /\ settings.use_ci
    /\ {<<"build.sh">>, <<"Dockerfile">>, <<".cursor", "mcp.json">>} \subseteq files

\* The rearrangements of the positions 1..n, for every length a language
\* list can have
Rearrangements ==
    [n \in 0..(MaxLangs + 1) |->
        {f \in [1..n -> 1..n] : \A i, j \in 1..n : f[i] = f[j] => i = j}]

\* Every reordering of a list
Reorderings(list) ==
    {[i \in 1..Len(list) |-> list[f[i]]] : f \in Rearrangements[Len(list)]}

\* C11: the recommendations written to .vscode/extensions.json are what
\* get_vscode_extensions returns for every reordering of the selected language
\* list with the same AI tools; the list is in ascending string order and no
\* extension id appears twice.
C11_ExtensionsOrderIndependent ==
    vscode_extensions # <<>> =>
        /\ \A languages \in Reorderings(settings.languages) :
              get_vscode_extensions(languages, settings.ai_tools) = vscode_extensions
        /\ \A i \in 1..(Len(vscode_extensions) - 1) :
              ExtensionKey[vscode_extensions[i]] < ExtensionKey[vscode_extensions[i + 1]]

\* Two different languages and some AI tools were selected and the
\* recommendations were written: the list has a reordering that is not itself.
C11_Witness ==
    /\ vscode_extensions # <<>>
    /\ <<".vscode", "extensions.json">> \in files
    /\ Len(settings.languages) = 2
    /\ settings.languages[1] # settings.languages[2]
    /\ settings.ai_tools # {}

\* C12: a step taken while the configuration file does not exist writes the
\* file with the placeholder values and ends the run: the settings prompts are
\* not shown, nothing is created at or below the project root and no command
\* is started, and no step follows it.  A step taken while the file exists
\* leaves it in existence with the API keys it had; the step that loads the
\* configuration takes the keys from the file and goes on to the settings.
C12_FirstRunWritesPlaceholdersAndExits ==
    [][/\ ~cfgFile.exists =>
            /\ cfgFile' = [exists |-> TRUE, github_username |-> "",
                           API_KEYS |-> DefaultApiKeys]
            /\ pc' = "exited"
            /\ halt' = "first_run"
            /\ settings' = EmptySettings
            /\ dirs' = dirs /\ files' = files
            /\ events' = <<>>
            /\ SUMMARY_LOG' = <<>> /\ NEXT_STEPS' = <<>>
       /\ halt # "first_run"
       /\ cfgFile.exists =>
            /\ cfgFile'.exists
            /\ cfgFile'.API_KEYS = cfgFile.API_KEYS
            /\ \A k \in DOMAIN cfgFile.API_KEYS :
                  ~ContainsYOUR(cfgFile.API_KEYS[k]) => ~ContainsYOUR(cfgFile'.API_KEYS[k])
            /\ pc = "start" => /\ config'.API_KEYS = cfgFile.API_KEYS
                               /\ pc' = "settings"
                               /\ halt' = "none"]_vars

\* The first run has happened: the file was missing, now holds the
\* placeholders, and the run is over.
C12_Witness ==
    /\ halt = "first_run"
    /\ pc = "exited"
    /\ cfgWrites = 1
    /\ cfgFile.exists
    /\ cfgFile.API_KEYS = DefaultApiKeys

\* A later run: the file held real keys, was read, and the run went on to
\* create the project.
C12_WitnessLaterRun ==
    /\ pc = "done"
    /\ cfgFile.exists
    /\ cfgFile.API_KEYS = RealApiKeys
    /\ config.API_KEYS = RealApiKeys

\* A line of the ignore file that is not empty
NonBlank(line) == line # ""

\* The specific lines of every listed language, one language after the other
RECURSIVE ListedLanguageRules(_)
ListedLanguageRules(languages) ==
    IF languages = <<>> THEN <<>>
    ELSE SelectSeq(lang_specific_map[Head(languages)], NonBlank)
         \o ListedLanguageRules(Tail(languages))

\* The lines that only languages other than lang have
ForeignRules(lang) ==
    UNION {Range(lang_specific_map[other]) : other \in Langs \ {lang}}
        \ (Range(lang_specific_map[lang]) \cup Range(GitignoreCommon))

\* C13: the non-empty lines of the written .gitignore are the common lines
\* followed by the specific lines of every listed language, in list order; the
\* file of a single-language project holds no line that only another language
\* has.
C13_IgnoreRulesCommonThenListed ==
    gitignore # <<>> =>
        /\ SelectSeq(gitignore, NonBlank)
              = SelectSeq(GitignoreCommon, NonBlank)
                    \o ListedLanguageRules(settings.languages)
        /\ Len(settings.languages) = 1 =>
              Range(gitignore) \cap ForeignRules(settings.languages[1]) = {}

\* .gitignore was written for two different languages listed against the
\* order of the menu.
C13_Witness ==
    /\ <<".gitignore">> \in files
    /\ gitignore # <<>>
    /\ settings.languages = <<"Rust", "Python">>

\* .gitignore was written for a single-language C++ project.
C13_WitnessSingle ==
    /\ <<".gitignore">> \in files
    /\ settings.languages = <<"C++">>
    /\ \E i \in 1..Len(gitignore) : gitignore[i] = "**/CMakeCache.txt"

\* The real keys of the persisted configuration
RealKeyValues ==
    {config.API_KEYS[k] : k \in {k \in DOMAIN config.API_KEYS : RealValue(config.API_KEYS[k])}}

\* The environment entries of a written configuration, as <<name, value>>
EnvEntries(servers) ==
    UNION {{<<key, servers[name].env[key]>> : key \in DOMAIN servers[name].env} :
            name \in DOMAIN servers}

\* C14: every environment entry written to .gemini/settings.json and to
\* .claude/settings.json is the ${env:NAME} placeholder of its own name, whatever
\* was resolved for .cursor/mcp.json; no real key of the persisted
\* configuration is in either file, nor in .gitignore or the editor
\* recommendations.
C14_OnlyCursorHoldsResolvedKeys ==
    /\ \A entry \in EnvEntries(gemini_config) \cup EnvEntries(claude_config) :
          /\ IsEnvPlaceholder(entry[2])
          /\ VarName(entry[2]) = entry[1]
          /\ entry[2] \notin RealKeyValues
    /\ Range(gitignore) \cap RealKeyValues = {}
    /\ Range(vscode_extensions) \cap RealKeyValues = {}

\* Gemini, Cursor and Claude were configured with Taskmaster enabled: the
\* Cursor file holds a real key where the other two hold the placeholder.
C14_Witness ==
    /\ {<<".gemini", "settings.json">>, <<".cursor", "mcp.json">>,
         <<".claude", "settings.json">>} \subseteq files
    /\ "taskmaster-ai" \in DOMAIN cursor_config
    /\ cursor_config["taskmaster-ai"].env["ANTHROPIC_API_KEY"] = "sk-ant-anthropic"
    /\ claude_config["taskmaster-ai"].env["ANTHROPIC_API_KEY"] = "${env:ANTHROPIC_API_KEY}"
    /\ gemini_config["taskmaster-ai"].env["ANTHROPIC_API_KEY"] = "${env:ANTHROPIC_API_KEY}"

====
